---- MODULE Spec2Model ----
(***************************************************************************)
(* A model of src/lib/git/cloneRepo.ts: the cloneRepo(repo) function that  *)
(* acquires a GitHub repository into a per-repository cache directory,     *)
(* either by a real git pull / git clone or, in a serverless environment,  *)
(* by writing a marker file.                                               *)
(*                                                                         *)
(* Strings that the code takes apart or puts together (the repository      *)
(* identifier, the directory name) are sequences of one-character strings. *)
(* Free-form texts that the code only searches (stderr, error messages)    *)
(* are sets of phrases; includes() is membership, toLowerCase() maps each  *)
(* phrase to its lower-case form.                                          *)
(*                                                                         *)
(* A call is atomic between two awaits: JavaScript runs the synchronous    *)
(* code between them without interleaving.                                 *)
(***************************************************************************)
EXTENDS Naturals, Sequences, FiniteSets

\* ------------------------------------------------------------------ bounds
\* Longest identifier string the parser is run on.
MaxLen == 4
\* Number of cloneRepo calls started in one behaviour.
MaxCalls == 2

Calls == {1, 2}

\* ----------------------------------------------------------------- strings
Alphabet == {"a", "b", "-", "/"}

Strings == UNION {[1..n -> Alphabet] : n \in 0..MaxLen}

S_ab_c == <<"a", "-", "b", "/", "c">>
S_a_bc == <<"a", "/", "b", "-", "c">>
S_a_b_c == <<"a", "/", "b", "/", "c">>

\* The identifiers the calls of the state machine are made with: two valid
\* ones whose owner or name holds a '-', and an invalid one.
Repos == {S_ab_c, S_a_bc, S_a_b_c}

RECURSIVE SplitAcc(_, _, _)
SplitAcc(s, cur, acc) ==
  IF s = <<>> THEN Append(acc, cur)
  ELSE IF Head(s) = "/" THEN SplitAcc(Tail(s), <<>>, Append(acc, cur))
  ELSE SplitAcc(Tail(s), Append(cur, Head(s)), acc)

\* repo.split("/")
Split(s) == SplitAcc(s, <<>>, <<>>)

\* A validation that forgets the empty-segment tests.
ValidPartsLengthOnly(repoParts) == Len(repoParts) = 2

\* A validation that only asks for a second segment.
ValidPartsAtLeastTwo(repoParts) == Len(repoParts) >= 2

\* !(repoParts.length !== 2 || !repoParts[0] || !repoParts[1])
ValidParts(repoParts) ==
  /\ Len(repoParts) = 2
  /\ repoParts[1] # <<>>
  /\ repoParts[2] # <<>>

\* Lines 18-23: the parse of the identifier.
ParseRepo(repo) ==
  LET repoParts == Split(repo) IN
  IF ValidParts(repoParts)
  THEN [ok |-> TRUE, owner |-> repoParts[1], repoName |-> repoParts[2], error |-> ""]
  ELSE [ok |-> FALSE, owner |-> <<>>, repoName |-> <<>>, error |-> "InvalidIdentity"]

\* `${owner}-${repoName}`
DirName(owner, repoName) == owner \o <<"-">> \o repoName

\* join(join(tempBase, "bugsmith"), `${owner}-${repoName}`)
TargetDirOf(tempBase, owner, repoName) ==
  <<tempBase, "bugsmith", DirName(owner, repoName)>>

\* ------------------------------------------------------------- environment
NoEnv == [VERCEL |-> "", AWS_LAMBDA_FUNCTION_NAME |-> "", VERCEL_ENV |-> "",
          TEMP |-> "", TMP |-> ""]

\* The values of process.env the calls are made under ("" is unset).
Envs == {
  NoEnv,
  [NoEnv EXCEPT !.TEMP = "%TEMP%"],
  [NoEnv EXCEPT !.TEMP = "%TEMP%", !.VERCEL = "1"],
  [NoEnv EXCEPT !.TEMP = "%TEMP%", !.AWS_LAMBDA_FUNCTION_NAME = "fn"],
  [NoEnv EXCEPT !.TEMP = "%TEMP%", !.VERCEL_ENV = "production"] }

Platforms == {"linux", "win32"}

\* Lines 28-33: the first operand of the || chain that is truthy, "none" when
\* the whole expression is falsy.
DegradedBy(e, plat) ==
  CASE e.VERCEL = "1" \/ e.VERCEL # "" -> "VERCEL"
    [] e.AWS_LAMBDA_FUNCTION_NAME # "" -> "AWS_LAMBDA_FUNCTION_NAME"
    [] e.VERCEL_ENV # "" -> "VERCEL_ENV"
    [] e.TEMP = "" /\ e.TMP = "" /\ plat # "win32" -> "TEMP"
    [] OTHER -> "none"

\* A classifier that probes whatever the heuristics said.
NeedsProbeAlways(isServerless) == TRUE

\* Line 37: if (!isServerless)
NeedsProbe(isServerless) == ~isServerless

\* A base that follows TEMP and TMP on every platform.
TempBaseEnvFirst(plat, e) ==
  IF e.TEMP # "" THEN e.TEMP
  ELSE IF e.TMP # "" THEN e.TMP
  ELSE IF plat = "win32" THEN "C:\\temp" ELSE "/tmp"

\* Lines 73-75
TempBase(plat, e) ==
  IF plat = "win32"
  THEN IF e.TEMP # "" THEN e.TEMP ELSE IF e.TMP # "" THEN e.TMP ELSE "C:\\temp"
  ELSE "/tmp"

\* Line 51
ServerlessTempBase == "/tmp"

Bases == {ServerlessTempBase} \cup {TempBase(p, e) : p \in Platforms, e \in Envs}

\* Lines 18-23 on each identifier the calls are made with.
Parsed == [r \in Repos |-> ParseRepo(r)]

Identities == {<<Parsed[r].owner, Parsed[r].repoName>> : r \in {x \in Repos : Parsed[x].ok}}

TargetDirs == {TargetDirOf(b, i[1], i[2]) : b \in Bases, i \in Identities}

\* ------------------------------------------------------------------- texts
\* String.prototype.toLowerCase on one phrase.
Lower(t) ==
  CASE t = "Cloning into" -> "cloning into"
    [] t = "Permission denied" -> "permission denied"
    [] t = "FATAL:" -> "fatal:"
    [] t = "REMOTE:" -> "remote:"
    [] t = "Git is not installed or" -> "git is not installed or"
    [] t = "not in PATH" -> "not in path"
    [] OTHER -> t

ToLowerCase(text) == {Lower(t) : t \in text}

\* String.prototype.includes
Includes(text, needle) == needle \in text

\* Line 123
errorIndicators == {"fatal:", "error:", "Permission denied", "not found"}

\* A test of the error indicators that keeps the case of the text.
StderrIsErrorCaseSensitive(stderr) ==
  /\ stderr # {}
  /\ ~Includes(stderr, "Cloning into")
  /\ ~Includes(stderr, "remote:")
  /\ \E indicator \in errorIndicators : Includes(stderr, indicator)

\* Lines 121-126: whether the stderr of a clone that exited 0 is thrown as an
\* error.
StderrIsError(stderr) ==
  /\ stderr # {}
  /\ ~Includes(stderr, "Cloning into")
  /\ ~Includes(stderr, "remote:")
  /\ \E indicator \in errorIndicators :
        Includes(ToLowerCase(stderr), Lower(indicator))

\* Line 130
IsGitMissingMessage(message) ==
  /\ Includes(message, "git")
  /\ (Includes(message, "not found") \/ Includes(message, "not in PATH"))

\* Lines 110 and 131
GitMissingText == {"Git is not installed or", "not in PATH"}

\* The message of the error child_process.exec rejects with:
\* "Command failed: <command>\n<stderr>".
ExecErrorText(stderr) == {"Command failed:", "git"} \cup stderr

\* The timeout option of each exec call, in milliseconds; 0 is no timeout.
ExecTimeout(site) ==
  CASE site = "probe1" -> 2000
    [] site = "pull" -> 0
    [] site = "probe2" -> 0
    [] site = "clone" -> 0
    [] OTHER -> 0

\* What git clone can end with when git runs and the target is free: the exit
\* status and the phrases of its stderr.
CloneChoices == {
  [exit |-> 0, stderr |-> {}],
  [exit |-> 0, stderr |-> {"Cloning into", "fatal:"}],
  [exit |-> 0, stderr |-> {"fatal:"}],
  [exit |-> 0, stderr |-> {"cloning into", "error:"}],
  [exit |-> 128, stderr |-> {"Cloning into", "remote:", "fatal:", "not found"}],
  [exit |-> 128, stderr |-> {"Cloning into", "fatal:", "unable to access"}] }

\* The shell's answer when the executable is missing.
CommandNotFound == [exit |-> 127, stderr |-> {"git", "not found"}]

\* git's refusal to clone into a directory that exists and is not empty.
DestinationExists == [exit |-> 128, stderr |-> {"fatal:", "already exists"}]

\* ------------------------------------------------------------------- state
VARIABLES
  platform,      \* process.platform, fixed for a run
  gitInstalled,  \* whether "git" is an executable of the PATH right now
  bugsmithDirs,  \* the temp bases whose "bugsmith" directory exists
  fs,            \* the contents of every target directory
  call,          \* the calls of cloneRepo: position and locals of each
  ncalls,        \* the calls started so far
  acquired,      \* <<identity, directory>> of the non-degraded calls that returned
  pin,           \* the identifier the parser alone is run on
  pout           \* and what it gave

vars == <<platform, gitInstalled, bugsmithDirs, fs, call, ncalls, acquired, pin, pout>>

NoDir == [exists |-> FALSE, git |-> <<>>, marker |-> <<>>]

\* The locals of a call that has not started.
Idle == [pc |-> "idle", repo |-> <<>>, owner |-> <<>>, repoName |-> <<>>,
         isServerless |-> FALSE, degradedBy |-> "none", targetDir |-> <<>>,
         spawned |-> <<>>, updateFailed |-> FALSE, exit |-> 0, stderr |-> {},
         error |-> <<>>, known |-> {}, toolSeen |-> <<>>]

Terminal == {"Done", "DegradedDone", "Failed"}
InFlight == {"probe1", "pull", "probe2", "clone"}

\* The faults the filesystem calls of one step can meet: the first mkdirSync it
\* makes throws, or its writeFileSync throws.
Faults == {"none", "mkdir", "write"}

\* An outer catch that rethrows the error it caught as it is.
FailRethrown(rec, kind, text) ==
  [rec EXCEPT !.pc = "Failed",
              !.error = <<[kind |-> kind,
                           repo |-> IF kind = "InvalidIdentity" THEN rec.repo ELSE <<>>,
                           text |-> text]>>]

\* Lines 138-142: every error leaves wrapped in one new Error.
Fail(rec, kind, text) ==
  [rec EXCEPT !.pc = "Failed",
              !.error = <<[kind |-> kind, repo |-> rec.repo,
                           text |-> {"Failed to clone repository"} \cup text]>>]

\* JSON.stringify({ repo, cloned: false, serverless: true })
MarkerBody(repo) == [repo |-> repo, cloned |-> FALSE, serverless |-> TRUE]

\* A check that never finds the checkout.
HasCheckoutNever(d) == FALSE

\* Line 87: existsSync(join(targetDir, ".git"))
HasCheckout(d) == d.git # <<>>

NonEmpty(d) == d.git # <<>> \/ d.marker # <<>>

\* Lines 48-70: the serverless branch, as the record of what it leaves.
ServerlessBranch(rec, why, dirs, files, fault) ==
  LET targetDir == TargetDirOf(ServerlessTempBase, rec.owner, rec.repoName)
      r0 == [rec EXCEPT !.isServerless = TRUE, !.degradedBy = why]
      r1 == [r0 EXCEPT !.targetDir = targetDir]
      dirs1 == dirs \cup {ServerlessTempBase}
      made == [files EXCEPT ![targetDir].exists = TRUE]
      written == [made EXCEPT ![targetDir].marker = <<MarkerBody(rec.repo)>>]
  IN
  IF ServerlessTempBase \notin dirs /\ fault = "mkdir"
  THEN [dirs |-> dirs, fs |-> files, rec |-> Fail(r0, "Filesystem", {"EACCES", "mkdir"})]
  ELSE IF ~files[targetDir].exists /\ fault = "mkdir"
  THEN [dirs |-> dirs1, fs |-> files, rec |-> Fail(r1, "Filesystem", {"EACCES", "mkdir"})]
  ELSE IF fault = "write"
  THEN [dirs |-> dirs1, fs |-> made, rec |-> Fail(r1, "Filesystem", {"EACCES", "open"})]
  ELSE [dirs |-> dirs1, fs |-> written, rec |-> [r1 EXCEPT !.pc = "DegradedDone"]]

\* Lines 72-90 and 103-108: the base and target directory of a real checkout,
\* then the pull of an existing checkout or the version probe before a clone.
NonDegradedStart(rec, e, dirs, files, fault) ==
  LET tempBase == TempBase(platform, e)
      targetDir == TargetDirOf(tempBase, rec.owner, rec.repoName)
      r1 == [rec EXCEPT !.targetDir = targetDir]
      dirs1 == dirs \cup {tempBase}
      made == [files EXCEPT ![targetDir].exists = TRUE]
  IN
  IF tempBase \notin dirs /\ fault = "mkdir"
  THEN [dirs |-> dirs, fs |-> files, rec |-> Fail(rec, "Filesystem", {"EACCES", "mkdir"})]
  ELSE IF ~files[targetDir].exists /\ fault = "mkdir"
  THEN [dirs |-> dirs1, fs |-> files, rec |-> Fail(r1, "Filesystem", {"EACCES", "mkdir"})]
  ELSE [dirs |-> dirs1, fs |-> made,
        rec |-> IF HasCheckout(files[targetDir])
                THEN [r1 EXCEPT !.pc = "pull", !.spawned = Append(@, "git pull")]
                ELSE [r1 EXCEPT !.pc = "probe2", !.spawned = Append(@, "git --version")]]

\* A classifier that lets the failure of its probe out as an error.
AfterClassifierProbeThrows(rec, probeOk, e, dirs, files, fault) ==
  IF ~probeOk /\ ~rec.isServerless
  THEN [dirs |-> dirs, fs |-> files, rec |-> Fail(rec, "ToolUnavailable", GitMissingText)]
  ELSE IF probeOk /\ ~rec.isServerless
  THEN NonDegradedStart(rec, e, dirs, files, fault)
  ELSE ServerlessBranch(rec, rec.degradedBy, dirs, files, fault)

\* A classifier that goes on as non-degraded whatever its probe ended with.
AfterClassifierProbeTrusting(rec, probeOk, e, dirs, files, fault) ==
  IF ~rec.isServerless
  THEN NonDegradedStart(rec, e, dirs, files, fault)
  ELSE ServerlessBranch(rec, rec.degradedBy, dirs, files, fault)

\* Lines 37-48 after the classifier's probe has ended.
AfterClassifierProbe(rec, probeOk, e, dirs, files, fault) ==
  IF probeOk /\ ~rec.isServerless
  THEN NonDegradedStart(rec, e, dirs, files, fault)
  ELSE ServerlessBranch(rec, IF rec.isServerless THEN rec.degradedBy ELSE "probe",
                        dirs, files, fault)

\* An update failure that runs the update again.
PullFailedRetry(rec) ==
  [rec EXCEPT !.updateFailed = TRUE, !.pc = "pull", !.spawned = Append(@, "git pull")]

\* An update failure that is swallowed: the stale checkout is returned.
PullFailedReturnsStale(rec) ==
  [rec EXCEPT !.updateFailed = TRUE, !.pc = "Done"]

\* An update failure that is thrown to the caller.
PullFailedRethrow(rec) ==
  Fail([rec EXCEPT !.updateFailed = TRUE], "Acquisition", ExecErrorText({"git pull"}))

\* Lines 95-108: the pull failed; warn, keep the directory, probe for a clone.
PullFailed(rec) ==
  [rec EXCEPT !.updateFailed = TRUE, !.pc = "probe2",
              !.spawned = Append(@, "git --version")]

\* Lines 128-134: the catch around the probe and the clone.
CloneCatch(rec, kind, message) ==
  IF IsGitMissingMessage(message)
  THEN Fail(rec, "ToolUnavailable", GitMissingText)
  ELSE Fail(rec, kind, message)

\* Lines 113-137: the clone has ended with `out`.
AfterClone(rec, out) ==
  LET r1 == [rec EXCEPT !.exit = out.exit, !.stderr = out.stderr] IN
  IF out.exit # 0
  THEN CloneCatch(r1, "Acquisition", ExecErrorText(out.stderr))
  ELSE IF StderrIsError(out.stderr)
  THEN CloneCatch(r1, "Acquisition", {"Git clone error:"} \cup out.stderr)
  ELSE [r1 EXCEPT !.pc = "Done"]

\* What the clone of a call can end with in the current state.
CloneOutcomes(rec) ==
  IF ~gitInstalled THEN {CommandNotFound}
  ELSE IF NonEmpty(fs[rec.targetDir]) THEN {DestinationExists}
  ELSE CloneChoices

\* ------------------------------------------------------------------ actions
Init ==
  /\ platform \in Platforms
  /\ gitInstalled \in BOOLEAN
  /\ bugsmithDirs = {}
  /\ fs = [d \in TargetDirs |-> NoDir]
  /\ call = [c \in Calls |-> Idle]
  /\ ncalls = 0
  /\ acquired = {}
  /\ pin = <<>>
  /\ pout = <<>>

\* git is installed or removed, or the PATH changes.
ToolChange ==
  /\ gitInstalled' = ~gitInstalled
  /\ UNCHANGED <<platform, bugsmithDirs, fs, call, ncalls, acquired, pin, pout>>

\* Lines 15-39 (and 48-70 when a heuristic trips): cloneRepo(r) is called under
\* the environment e and runs to its first await or to its end. The second
\* record is taken only by a call made while the first is in flight.
Call(c, r, e, fault) ==
  /\ call[c].pc \in {"idle"} \cup Terminal
  /\ c = 1 \/ call[1].pc \in InFlight
  /\ ncalls < MaxCalls
  /\ ncalls' = ncalls + 1
  \* a fault is drawn only for a step that touches the filesystem
  /\ fault = "none" \/ (Parsed[r].ok /\ ~NeedsProbe(DegradedBy(e, platform) # "none"))
  /\ LET parsed == Parsed[r]
         why == DegradedBy(e, platform)
         r0 == [Idle EXCEPT !.repo = r]
         r1 == [r0 EXCEPT !.owner = parsed.owner, !.repoName = parsed.repoName,
                          !.isServerless = why # "none", !.degradedBy = why,
                          !.known = {a[2] : a \in {x \in acquired :
                                       x[1] = <<parsed.owner, parsed.repoName>>}}]
         out == ServerlessBranch(r1, why, bugsmithDirs, fs, fault)
     IN
     IF ~parsed.ok
     THEN /\ call' = [call EXCEPT ![c] = Fail(r0, parsed.error,
                                            {"Invalid repository format:"})]
          /\ UNCHANGED <<bugsmithDirs, fs>>
     ELSE IF NeedsProbe(r1.isServerless)
     THEN /\ call' = [call EXCEPT ![c] =
                        [r1 EXCEPT !.pc = "probe1", !.spawned = <<"git --version">>]]
          /\ UNCHANGED <<bugsmithDirs, fs>>
     ELSE /\ call' = [call EXCEPT ![c] = out.rec]
          /\ bugsmithDirs' = out.dirs
          /\ fs' = out.fs
  /\ UNCHANGED <<platform, gitInstalled, acquired, pin, pout>>

\* The classifier's probe has ended, well or badly.
ProbeEnds(c, probeOk, e, fault) ==
  LET \* what a probe that ended well has seen of the tool
      seen == [call[c] EXCEPT !.toolSeen = IF probeOk THEN <<gitInstalled>> ELSE <<>>]
      out == AfterClassifierProbe(seen, probeOk, e, bugsmithDirs, fs, fault)
      nonDegraded == probeOk /\ ~call[c].isServerless
  IN
  \* the environment is read again only by line 74, and only the serverless
  \* branch writes a file
  /\ e = NoEnv \/ nonDegraded
  /\ fault = "write" => ~nonDegraded
  /\ call' = [call EXCEPT ![c] = out.rec]
  /\ bugsmithDirs' = out.dirs
  /\ fs' = out.fs
  /\ UNCHANGED <<platform, gitInstalled, ncalls, acquired, pin, pout>>

\* Lines 39-46: "git --version" of the classifier exits.
ClassifierProbeDone(c, e, fault) ==
  /\ call[c].pc = "probe1"
  /\ ProbeEnds(c, gitInstalled, e, fault)

\* Lines 90-100: "git pull" exits.
PullEnds(c, ok) ==
  /\ call' = [call EXCEPT ![c] = IF ok THEN [@ EXCEPT !.pc = "Done"] ELSE PullFailed(@)]
  /\ acquired' = IF ok
                 THEN acquired \cup {<<<<call[c].owner, call[c].repoName>>, call[c].targetDir>>}
                 ELSE acquired
  /\ UNCHANGED <<platform, gitInstalled, bugsmithDirs, fs, ncalls, pin, pout>>

PullDone(c, ok) ==
  /\ call[c].pc = "pull"
  /\ ok => gitInstalled
  /\ PullEnds(c, ok)

\* A clone attempt that waits while another call clones into its directory.
CloneProbeEndsExclusive(c, probeOk) ==
  /\ probeOk => \A o \in Calls \ {c} :
                  ~(call[o].pc = "clone" /\ call[o].targetDir = call[c].targetDir)
  /\ call' = [call EXCEPT ![c] =
                IF probeOk
                THEN [@ EXCEPT !.pc = "clone", !.spawned = Append(@, "git clone")]
                ELSE CloneCatch(@, "ToolUnavailable", GitMissingText)]
  /\ UNCHANGED <<platform, gitInstalled, bugsmithDirs, fs, ncalls, acquired, pin, pout>>

\* Lines 107-111: "git --version" of the clone attempt exits.
CloneProbeEnds(c, probeOk) ==
  /\ call' = [call EXCEPT ![c] =
                IF probeOk
                THEN [@ EXCEPT !.pc = "clone", !.spawned = Append(@, "git clone")]
                ELSE CloneCatch(@, "ToolUnavailable", GitMissingText)]
  /\ UNCHANGED <<platform, gitInstalled, bugsmithDirs, fs, ncalls, acquired, pin, pout>>

CloneProbeDone(c) ==
  /\ call[c].pc = "probe2"
  /\ CloneProbeEnds(c, gitInstalled)

\* Lines 113-137: "git clone" exits with `out`; a clone that exits 0 has made
\* the checkout of the URL's repository in the target directory.
CloneEnds(c, out) ==
  LET rec == AfterClone(call[c], out) IN
  /\ call' = [call EXCEPT ![c] = rec]
  /\ fs' = IF out.exit = 0
           THEN [fs EXCEPT ![call[c].targetDir] =
                   [@ EXCEPT !.exists = TRUE, !.git = <<call[c].owner, call[c].repoName>>]]
           ELSE fs
  /\ bugsmithDirs' = IF out.exit = 0
                     THEN bugsmithDirs \cup {call[c].targetDir[1]}
                     ELSE bugsmithDirs
  /\ acquired' = IF rec.pc = "Done"
                 THEN acquired \cup {<<<<call[c].owner, call[c].repoName>>, call[c].targetDir>>}
                 ELSE acquired
  /\ UNCHANGED <<platform, gitInstalled, ncalls, pin, pout>>

CloneDone(c, out) ==
  /\ call[c].pc = "clone"
  /\ out \in CloneOutcomes(call[c])
  /\ CloneEnds(c, out)

\* The child killed by exec's timeout: no exit status, the promise rejects.
Killed == [exit |-> 143, stderr |-> {}]

\* exec's timeout option fires on a child that has not ended.
ExecTimedOut(c, e, fault) ==
  /\ call[c].pc \in InFlight
  /\ ExecTimeout(call[c].pc) > 0
  /\ CASE call[c].pc = "probe1" -> ProbeEnds(c, FALSE, e, fault)
       [] call[c].pc = "pull" -> PullEnds(c, FALSE)
       [] call[c].pc = "probe2" -> CloneProbeEnds(c, FALSE)
       [] call[c].pc = "clone" -> CloneEnds(c, Killed)

Next ==
  \/ ToolChange
  \/ \E c \in Calls, r \in Repos, e \in Envs, fault \in Faults : Call(c, r, e, fault)
  \/ \E c \in Calls, e \in Envs, fault \in Faults : ClassifierProbeDone(c, e, fault)
  \/ \E c \in Calls, e \in Envs, fault \in Faults : ExecTimedOut(c, e, fault)
  \/ \E c \in Calls, ok \in BOOLEAN : PullDone(c, ok)
  \/ \E c \in Calls : CloneProbeDone(c)
  \/ \E c \in Calls : \E out \in CloneChoices \cup {CommandNotFound, DestinationExists} :
        CloneDone(c, out)

Spec == Init /\ [][Next]_vars

\* ------------------------------------------- calls over a cache left behind
\* The state an earlier process leaves when its call for a/b-c has returned
\* from a clone: the checkout stays in the temp directory.
WarmInit ==
  LET id == <<Parsed[S_a_bc].owner, Parsed[S_a_bc].repoName>>
      d == TargetDirOf(TempBase(platform, NoEnv), id[1], id[2])
  IN
  /\ platform \in Platforms
  /\ gitInstalled \in BOOLEAN
  /\ bugsmithDirs = {d[1]}
  /\ fs = [x \in TargetDirs |->
             IF x = d THEN [exists |-> TRUE, git |-> id, marker |-> <<>>] ELSE NoDir]
  /\ call = [c \in Calls |-> Idle]
  /\ ncalls = 0
  /\ acquired = {<<id, d>>}
  /\ pin = <<>>
  /\ pout = <<>>

WarmSpec == WarmInit /\ [][Next]_vars

\* --------------------------------------- the reading of the clone's stderr
\* The phrases the stderr of a clone that exited 0 is made of: each marker of
\* lines 121-123 as written and in another letter case, and a phrase that is
\* no marker.
StderrPhrases ==
  {"Cloning into", "cloning into", "remote:", "REMOTE:", "fatal:", "FATAL:",
   "error:", "Permission denied", "permission denied", "not found", "warning:"}

\* Line 113 has been reached: a non-degraded call for a-b/c waits for its
\* git clone into a directory it has just made.
StderrInit ==
  LET parsed == Parsed[S_ab_c]
      d == TargetDirOf("/tmp", parsed.owner, parsed.repoName)
  IN
  /\ platform = "linux"
  /\ gitInstalled = TRUE
  /\ bugsmithDirs = {"/tmp"}
  /\ fs = [x \in TargetDirs |-> IF x = d THEN [NoDir EXCEPT !.exists = TRUE] ELSE NoDir]
  /\ call = [c \in Calls |->
               IF c = 1
               THEN [Idle EXCEPT !.pc = "clone", !.repo = S_ab_c,
                                 !.owner = parsed.owner, !.repoName = parsed.repoName,
                                 !.targetDir = d, !.toolSeen = <<TRUE>>,
                                 !.spawned = <<"git --version", "git --version", "git clone">>]
               ELSE Idle]
  /\ ncalls = 1
  /\ acquired = {}
  /\ pin = <<>>
  /\ pout = <<>>

\* Lines 113-137: git clone exits 0 with the stderr given.
CloneExitsZero(stderr) ==
  /\ call[1].pc = "clone"
  /\ CloneEnds(1, [exit |-> 0, stderr |-> stderr])

StderrNext == \E stderr \in SUBSET StderrPhrases : CloneExitsZero(stderr)

StderrSpec == StderrInit /\ [][StderrNext]_vars

\* ------------------------------------------------------- the parser, alone
ParseInit ==
  /\ platform = "linux"
  /\ gitInstalled = TRUE
  /\ bugsmithDirs = {}
  /\ fs = [d \in TargetDirs |-> NoDir]
  /\ call = [c \in Calls |-> Idle]
  /\ ncalls = 0
  /\ acquired = {}
  /\ pin \in Strings
  /\ pout = <<>>

\* Lines 18-23 on the identifier pin.
ParseAccept ==
  /\ pout = <<>>
  /\ ParseRepo(pin).ok
  /\ pout' = <<ParseRepo(pin)>>
  /\ UNCHANGED <<platform, gitInstalled, bugsmithDirs, fs, call, ncalls, acquired, pin>>

\* Lines 19-21 on the identifier pin.
ParseReject ==
  /\ pout = <<>>
  /\ ~ParseRepo(pin).ok
  /\ pout' = <<ParseRepo(pin)>>
  /\ UNCHANGED <<platform, gitInstalled, bugsmithDirs, fs, call, ncalls, acquired, pin>>

ParseNext == ParseAccept \/ ParseReject

ParseSpec == ParseInit /\ [][ParseNext]_vars

\* ------------------------------------------------------------------ claims
Range(s) == {s[i] : i \in DOMAIN s}

Identity(rec) == <<rec.owner, rec.repoName>>

\* C1: every non-degraded call that has returned its path left, at that path,
\* a directory that exists and holds a checkout of the repository the call
\* was made for.
C1_ReturnedPathHoldsNamedRepo ==
  \A c \in Calls :
    call[c].pc = "Done" =>
      /\ fs[call[c].targetDir].exists
      /\ fs[call[c].targetDir].git = Identity(call[c])

\* C2: no target directory holds both a checkout's .git and the serverless
\* marker, and the directory a degraded call returned holds the marker
\* (cloned false, serverless true) and no checkout.
C2_CheckoutOrMarkerNeverBoth ==
  /\ \A d \in TargetDirs : ~(fs[d].git # <<>> /\ fs[d].marker # <<>>)
  /\ \A c \in Calls :
       call[c].pc = "DegradedDone" =>
         /\ fs[call[c].targetDir].git = <<>>
         /\ fs[call[c].targetDir].marker # <<>>
         /\ ~fs[call[c].targetDir].marker[1].cloned
         /\ fs[call[c].targetDir].marker[1].serverless

\* C3: two calls made for different (owner, name) identities never resolve
\* to the same target directory.
C3_DistinctIdentitiesDistinctDirs ==
  \A c1, c2 \in Calls :
    /\ call[c1].targetDir # <<>>
    /\ call[c2].targetDir # <<>>
    /\ Identity(call[c1]) # Identity(call[c2])
    => call[c1].targetDir # call[c2].targetDir

\* C4: a non-degraded call that found no prior checkout and whose clone wrote
\* "fatal:" to stderr has failed, whatever the clone's exit status and the rest
\* of its stderr.
C4_FatalStderrAlwaysFails ==
  \A c \in Calls :
    /\ call[c].pc \in Terminal
    /\ "git clone" \in Range(call[c].spawned)
    /\ ~call[c].updateFailed
    /\ Includes(call[c].stderr, "fatal:")
    => /\ call[c].pc = "Failed"
       /\ call[c].error[1].kind = "Acquisition"

\* C5: once the pull of a prior checkout has failed, the call has gone on to
\* the clone attempt (its version probe, then its clone) into the same
\* directory, the checkout is still there, an error the call ends with comes
\* from that probe or clone and never from the pull, and no step of any call
\* removes a directory, a checkout or a marker.
C5_UpdateFailureFallsThrough ==
  [][ /\ \A c \in Calls :
           call'[c].updateFailed =>
             /\ call'[c].pc \in {"probe2", "clone", "Done", "Failed"}
             /\ Len(call'[c].spawned) >= 3
             /\ call'[c].spawned[2] = "git pull"
             /\ call'[c].spawned[3] = "git --version"
             /\ HasCheckout(fs'[call'[c].targetDir])
             /\ call'[c].pc = "Failed" =>
                  /\ ~Includes(call'[c].error[1].text, "git pull")
                  /\ call'[c].error[1].kind \in {"ToolUnavailable", "Acquisition"}
      /\ \A d \in TargetDirs :
           /\ fs[d].exists => fs'[d].exists
           /\ fs[d].git # <<>> => fs'[d].git = fs[d].git
           /\ fs[d].marker # <<>> => fs'[d].marker # <<>> ]_vars

\* A call whose pull failed and whose clone was then attempted and failed.
C5_Witness ==
  \E c \in Calls :
    /\ call[c].updateFailed
    /\ call[c].pc = "Failed"
    /\ call[c].spawned = <<"git --version", "git pull", "git --version", "git clone">>

\* C6: a clone that ran (its version probe had succeeded) and failed for a
\* reason other than a missing executable is never reported as the
\* tool-unavailable error, and the acquisition error it is reported as holds
\* the clone's stderr.
C6_CloneFailureNotToolUnavailable ==
  \A c \in Calls :
    /\ call[c].pc = "Failed"
    /\ "git clone" \in Range(call[c].spawned)
    /\ call[c].exit # CommandNotFound.exit
    => /\ call[c].error[1].kind = "Acquisition"
       /\ call[c].stderr \subseteq call[c].error[1].text

\* C7: every external process a call is waiting for was started with a
\* timeout.
C7_EveryExecHasTimeout ==
  \A c \in Calls : call[c].pc \in InFlight => ExecTimeout(call[c].pc) > 0

Heuristics == {"VERCEL", "AWS_LAMBDA_FUNCTION_NAME", "VERCEL_ENV", "TEMP"}

\* C8: a call a heuristic classified as degraded has spawned no process at
\* all; and a degraded call, however classified, has spawned neither pull nor
\* clone and has failed, if it failed, on a filesystem error.
C8_DegradedSpawnsNothing ==
  \A c \in Calls :
    /\ call[c].degradedBy \in Heuristics => call[c].spawned = <<>>
    /\ call[c].isServerless =>
         /\ Range(call[c].spawned) \subseteq {"git --version"}
         /\ call[c].pc \in {"DegradedDone", "Failed"}
         /\ call[c].pc = "Failed" => call[c].error[1].kind = "Filesystem"

\* A call the function-name variable made degraded returned without a
\* process, while another was degraded by its failed probe.
C8_Witness ==
  \E c1, c2 \in Calls :
    /\ call[c1].pc = "DegradedDone"
    /\ call[c1].degradedBy = "AWS_LAMBDA_FUNCTION_NAME"
    /\ call[c1].spawned = <<>>
    /\ fs[call[c1].targetDir].marker = <<MarkerBody(call[c1].repo)>>
    /\ call[c2].pc = "DegradedDone"
    /\ call[c2].degradedBy = "probe"

\* The first half of C9, shared by the claim and its amendment: a call that
\* returned after its pull spawned the classifier's probe and the pull only.
UpdateSuccessEndsCall(rec) ==
  rec.pc = "Done" /\ "git pull" \in Range(rec.spawned) /\ ~rec.updateFailed
    => rec.spawned = <<"git --version", "git pull">>

\* C9 as claimed: a successful pull ends the call without probe or clone, and
\* a non-degraded call for an identity that a non-degraded call had returned
\* for before it started pulls first and clones only after that pull failed.
C9_LaterCallsUpdateFirst ==
  \A c \in Calls :
    /\ UpdateSuccessEndsCall(call[c])
    /\ (~call[c].isServerless /\ call[c].targetDir # <<>> /\ call[c].known # {}) =>
         /\ Len(call[c].spawned) >= 2
         /\ call[c].spawned[2] = "git pull"
         /\ "git clone" \in Range(call[c].spawned) => call[c].updateFailed

\* C9 as amended: the same, for the later calls that resolve to a directory
\* in which the identity was acquired before.
C9_LaterCallsAtSameDirUpdateFirst ==
  \A c \in Calls :
    /\ UpdateSuccessEndsCall(call[c])
    /\ (~call[c].isServerless /\ call[c].targetDir \in call[c].known) =>
         /\ Len(call[c].spawned) >= 2
         /\ call[c].spawned[2] = "git pull"
         /\ "git clone" \in Range(call[c].spawned) => call[c].updateFailed

\* A later call for an acquired identity returned after its pull.
C9_Witness ==
  \E c \in Calls :
    /\ call[c].targetDir \in call[c].known
    /\ call[c].pc = "Done"
    /\ call[c].spawned = <<"git --version", "git pull">>

\* Exactly one '/', with something before it and something after it.
OneSlashAt(s, i) ==
  /\ s[i] = "/"
  /\ \A j \in DOMAIN s : s[j] = "/" => j = i
  /\ 1 < i
  /\ i < Len(s)

\* C10: the parser accepts a string iff it is owner "/" name with both
\* non-empty and without '/', gives exactly that owner and name, and rejects
\* every other string with the invalid-identity error.
C10_ParseAcceptsOwnerSlashName ==
  pout # <<>> =>
    /\ pout[1].ok <=> \E i \in DOMAIN pin : OneSlashAt(pin, i)
    /\ pout[1].ok =>
         \A i \in DOMAIN pin : OneSlashAt(pin, i) =>
           /\ pout[1].owner = SubSeq(pin, 1, i - 1)
           /\ pout[1].repoName = SubSeq(pin, i + 1, Len(pin))
    /\ ~pout[1].ok => pout[1].error = "InvalidIdentity"

\* An identifier with a '-' in its owner was accepted.
C10_Witness ==
  /\ pout # <<>>
  /\ pout[1].ok
  /\ "-" \in Range(pout[1].owner)
  /\ Len(pout[1].repoName) > 1

\* C11: a call with an invalid identifier fails with the invalid-identity
\* error before anything else happens: the step that takes the identifier
\* spawns no process, resolves no directory, and leaves the directories, the
\* markers and the checkouts of the cache as they were.
C11_InvalidIdentifierTouchesNothing ==
  [][\A c \in Calls :
       (/\ call'[c] # call[c]
        /\ ~\E i \in DOMAIN call'[c].repo : OneSlashAt(call'[c].repo, i))
       => /\ call'[c].pc = "Failed"
          /\ Len(call'[c].error) = 1
          /\ call'[c].error[1].kind = "InvalidIdentity"
          /\ call'[c].spawned = <<>>
          /\ call'[c].targetDir = <<>>
          /\ fs' = fs
          /\ bugsmithDirs' = bugsmithDirs
          /\ gitInstalled' = gitInstalled]_vars

\* A call with the identifier a/b/c has failed over a cache that holds a
\* directory of an earlier call.
C11_Witness ==
  \E c \in Calls :
    /\ call[c].repo = S_a_b_c
    /\ call[c].pc = "Failed"
    /\ call[c].error[1].kind = "InvalidIdentity"
    /\ \E d \in TargetDirs : fs[d].exists

\* C12 as stated: when no heuristic trips and the classifier's probe fails,
\* the call is classified degraded and always completes in degraded mode,
\* marker written and path returned, with no error of any kind.
C12_ProbeFailureAlwaysCompletesDegraded ==
  [][\A c \in Calls :
       (call[c].pc = "probe1" /\ call'[c] # call[c] /\ ~gitInstalled)
       => /\ call'[c].isServerless
          /\ call'[c].degradedBy = "probe"
          /\ call'[c].pc = "DegradedDone"
          /\ fs'[call'[c].targetDir].marker = <<MarkerBody(call[c].repo)>>]_vars

\* C12: the classification never raises. When no heuristic trips and the
\* classifier's probe fails (the tool is missing, or the probe is killed by
\* its timeout) the call is classified degraded, spawns nothing more, and
\* either completes in degraded mode (directory made, marker written, path
\* under /tmp returned) or fails on a filesystem error of the degraded
\* branch; it never fails with the tool-unavailable error. A call leaves the
\* probe non-degraded only when the tool is installed.
C12_ProbeFailureClassifiesDegraded ==
  [][\A c \in Calls :
       (call[c].pc = "probe1" /\ call'[c] # call[c])
       => /\ ~gitInstalled => call'[c].isServerless
          /\ call'[c].isServerless =>
               /\ call'[c].degradedBy = "probe"
               /\ call'[c].spawned = <<"git --version">>
               /\ call'[c].pc \in {"DegradedDone", "Failed"}
               /\ call'[c].pc = "Failed" =>
                    call'[c].error[1].kind = "Filesystem"
               /\ call'[c].pc = "DegradedDone" =>
                    /\ call'[c].error = <<>>
                    /\ call'[c].targetDir =
                         TargetDirOf("/tmp", call[c].owner, call[c].repoName)
                    /\ fs'[call'[c].targetDir].exists
                    /\ fs'[call'[c].targetDir].marker = <<MarkerBody(call[c].repo)>>]_vars

\* With the tool missing and no heuristic tripped, a call has returned in
\* degraded mode after its probe failed.
C12_Witness ==
  \E c \in Calls :
    /\ ~gitInstalled
    /\ call[c].degradedBy = "probe"
    /\ call[c].pc = "DegradedDone"
    /\ call[c].spawned = <<"git --version">>
    /\ fs[call[c].targetDir].marker = <<MarkerBody(call[c].repo)>>

\* The step of call c threw out of a mkdirSync.
MkdirThrew(c) ==
  /\ call'[c] # call[c]
  /\ call'[c].pc = "Failed"
  /\ "mkdir" \in call'[c].error[1].text

\* A directory the step of call c had to make was missing before the step.
SomeDirectoryWasMissing(c) ==
  IF call'[c].targetDir # <<>>
  THEN ~fs[call'[c].targetDir].exists
  ELSE \E b \in Bases : b \notin bugsmithDirs

C14_SameIdentityCallsNotExcluded ==
  \A c1, c2 \in Calls :
    (c1 # c2 /\ gitInstalled /\ Identity(call[c1]) = Identity(call[c2])) =>
      /\ (/\ call[c1].pc = "clone"
          /\ call[c2].pc = "probe2"
          /\ call[c2].targetDir = call[c1].targetDir)
         => ENABLED (/\ CloneProbeDone(c2)
                     /\ call'[c2].pc = "clone"
                     /\ call'[c1].pc = "clone"
                     /\ call'[c2].targetDir = call'[c1].targetDir)
      /\ (/\ call[c1].pc \in {"pull", "clone"}
          /\ call[c2].pc = "probe1"
          /\ HasCheckout(fs[call[c1].targetDir]))
         => ENABLED (/\ \E e \in Envs : ClassifierProbeDone(c2, e, "none")
                     /\ call'[c2].pc = "pull"
                     /\ call'[c1].pc = call[c1].pc
                     /\ call'[c2].targetDir = call'[c1].targetDir)

\* Two calls for one identity have both found no checkout and both run
\* git clone into the same directory.
C14_Witness ==
  \E c1, c2 \in Calls :
    /\ c1 # c2
    /\ Identity(call[c1]) = Identity(call[c2])
    /\ call[c1].targetDir = call[c2].targetDir
    /\ call[c1].pc = "clone"
    /\ call[c2].pc = "clone"
    /\ call[c1].spawned = <<"git --version", "git --version", "git clone">>
    /\ call[c2].spawned = <<"git --version", "git --version", "git clone">>
    /\ ~HasCheckout(fs[call[c1].targetDir])

\* C15: when git clone exits 0 the call fails iff its stderr holds an error
\* marker (fatal:, error:, Permission denied, not found) in any letter case
\* and holds neither "Cloning into" nor "remote:" as written; otherwise, with
\* an empty stderr, a progress marker or no error marker, it returns.
C15_ExitZeroFailsIffErrorMarkerWithoutProgress ==
  \A c \in Calls :
    (/\ call[c].pc \in Terminal
     /\ call[c].spawned # <<>>
     /\ call[c].spawned[Len(call[c].spawned)] = "git clone"
     /\ call[c].exit = 0)
    => LET hasError ==
             call[c].stderr \cap {"fatal:", "FATAL:", "error:", "Permission denied",
                                  "permission denied", "not found"} # {}
           hasProgress ==
             "Cloning into" \in call[c].stderr \/ "remote:" \in call[c].stderr
       IN /\ call[c].pc = "Failed" <=> (hasError /\ ~hasProgress)
          /\ call[c].pc = "Done" <=> ~(hasError /\ ~hasProgress)

\* A clone that exited 0 has failed on an upper-case error marker next to
\* progress markers in another letter case.
C15_Witness ==
  /\ call[1].pc = "Failed"
  /\ call[1].exit = 0
  /\ call[1].stderr = {"cloning into", "REMOTE:", "FATAL:"}

\* The places of a command in the processes a call has spawned.
PlacesOf(rec, command) == {i \in DOMAIN rec.spawned : rec.spawned[i] = command}

\* C16: a call never loops or retries. It runs git pull at most once and
\* before any git clone, runs git clone at most once, as the last process it
\* spawns, right after the version probe of the clone attempt, and that clone
\* is started only by the step in which that probe ended with git installed.
\* A call in flight at its clone spawns nothing in the step that ends it. A
\* non-degraded call that returned without a pull ran git clone exactly once,
\* and one that returned from a successful pull ran no clone.
C16_NoLoopNoRetry ==
  [][\A c \in Calls :
       LET pulls == PlacesOf(call'[c], "git pull")
           clones == PlacesOf(call'[c], "git clone")
           n == Len(call'[c].spawned)
       IN
       /\ Cardinality(pulls) <= 1
       /\ Cardinality(clones) <= 1
       /\ pulls \subseteq {2}
       /\ \A i \in clones :
            /\ i = n
            /\ i >= 3
            /\ call'[c].spawned[i - 1] = "git --version"
            /\ \A j \in pulls : j < i - 1
       /\ (clones # {} /\ PlacesOf(call[c], "git clone") = {}) =>
            /\ call[c].pc = "probe2"
            /\ gitInstalled
            /\ call'[c].spawned = Append(call[c].spawned, "git clone")
       /\ call[c].pc = "clone" =>
            \/ call'[c] = call[c]
            \/ /\ call'[c].pc \in {"Done", "Failed"}
               /\ call'[c].spawned = call[c].spawned
       /\ (call'[c].pc = "Done" /\ pulls = {}) => clones = {n}
       /\ (call'[c].pc = "Done" /\ ~call'[c].updateFailed /\ pulls # {}) =>
            /\ clones = {}
            /\ n = 2]_vars

\* A call has failed after one pull, then one probe, then one clone.
C16_Witness ==
  \E c \in Calls :
    /\ call[c].pc = "Failed"
    /\ call[c].updateFailed
    /\ call[c].spawned = <<"git --version", "git pull", "git --version", "git clone">>

\* C17: a call that fails, on an invalid identifier, a filesystem error, a
\* missing tool or a failed clone, holds exactly one error, whose message
\* names the identifier the call was made with, and has resolved to no
\* returned path: it is in Failed, a terminal position, and neither Done nor
\* DegradedDone. A call holds an error only when it has failed.
C17_FailureIsOneErrorNamingRepo ==
  \A c \in Calls :
    /\ call[c].error # <<>> <=> call[c].pc = "Failed"
    /\ call[c].pc = "Failed" =>
         /\ Len(call[c].error) = 1
         /\ call[c].error[1].repo = call[c].repo
         /\ call[c].repo # <<>>
         /\ "Failed to clone repository" \in call[c].error[1].text
         /\ call[c].error[1].kind \in
              {"InvalidIdentity", "Filesystem", "ToolUnavailable", "Acquisition"}
         /\ call[c].pc \in Terminal
    /\ call[c].pc \in {"Done", "DegradedDone"} => call[c].targetDir # <<>>

\* One call has failed on an invalid identifier and another on its clone.
C17_Witness ==
  \E c1, c2 \in Calls :
    /\ call[c1].pc = "Failed"
    /\ call[c1].error[1].kind = "InvalidIdentity"
    /\ call[c2].pc = "Failed"
    /\ call[c2].error[1].kind \in {"Acquisition", "ToolUnavailable", "Filesystem"}
    /\ call[c2].error[1].repo = call[c2].repo

\* C18: git refusing to clone into a directory that is not empty, a
\* non-degraded call whose pull failed never returns its path: it goes on to
\* the probe and the clone and can only end in Failed; while it is in flight
\* a step that ends its probe or its clone can be taken; and no step of the
\* call, from the failure of the pull on, changes the directories or the
\* checkout that was there.
C18_FailedUpdateNeverSucceeds ==
  [][\A c \in Calls :
       /\ call'[c].updateFailed =>
            /\ call'[c].pc \in {"probe2", "clone", "Failed"}
            /\ ~call'[c].isServerless
            /\ HasCheckout(fs'[call'[c].targetDir])
       /\ (call[c].updateFailed /\ call[c].pc \in InFlight) =>
            ENABLED (\/ CloneProbeDone(c)
                     \/ \E out \in {CommandNotFound, DestinationExists} : CloneDone(c, out))
       /\ (call'[c].updateFailed /\ call'[c] # call[c]) =>
            /\ call[c].pc \in {"pull", "probe2", "clone"}
            /\ fs' = fs
            /\ bugsmithDirs' = bugsmithDirs
            /\ acquired' = acquired]_vars

\* A call whose pull failed has failed on git's refusal to clone over the
\* checkout, which is still there.
C18_Witness ==
  \E c \in Calls :
    /\ call[c].updateFailed
    /\ call[c].pc = "Failed"
    /\ call[c].error[1].kind = "Acquisition"
    /\ "already exists" \in call[c].error[1].text
    /\ HasCheckout(fs[call[c].targetDir])

\* C19: a call is past its classifier only if that probe ended well, git
\* being installed then; so a call fails through the probe of its clone
\* attempt only in a step where git is not installed any more, that is, only
\* if the tool went away between the two probes of the call. With the tool
\* unchanged during a call, no call fails through the probe of the clone
\* attempt.
C19_CloneProbeFailsOnlyAfterToolChange ==
  [][\A c \in Calls :
       /\ call'[c].pc \in {"pull", "probe2", "clone"} => call'[c].toolSeen = <<TRUE>>
       /\ (call[c].pc = "probe2" /\ call'[c].pc = "Failed") =>
            /\ call[c].toolSeen = <<TRUE>>
            /\ ~gitInstalled
            /\ call'[c].error[1].kind = "ToolUnavailable"
       /\ (call[c].pc = "probe2" /\ call'[c] # call[c] /\ gitInstalled) =>
            call'[c].pc = "clone"]_vars

\* A call whose classifier found git has failed through the probe of its
\* clone attempt, git being gone.
C19_Witness ==
  \E c \in Calls :
    /\ call[c].pc = "Failed"
    /\ call[c].toolSeen = <<TRUE>>
    /\ ~gitInstalled
    /\ call[c].spawned = <<"git --version", "git --version">>
    /\ call[c].error[1].kind = "ToolUnavailable"

====
